---- MODULE Spec2Model ----
(***************************************************************************)
(* Directory group synchronisation: the Keycloak syncer (hierarchical      *)
(* realm with nested sub-groups) and the Azure syncer (directory graph     *)
(* with base groups and transitive membership).  One syncer instance is    *)
(* modelled together with the directory and the secret store it talks to.  *)
(***************************************************************************)
EXTENDS Integers, Sequences, FiniteSets, TLC

(***************************************************************************)
(* Bounds of the model.                                                    *)
(***************************************************************************)
MaxEdges == 2       \* sub-group references in the directory
MaxTop == 2         \* length of the top-level group listing
MaxRuns == 2        \* Sync invocations on the instance

(***************************************************************************)
(* Program constants.                                                      *)
(***************************************************************************)
masterRealm == "master"
secretUsernameKey == "username"
secretPasswordKey == "password"
SubSyncScope == "sub"
OneSyncScope == "one"
TenantID == "AZURE_TENANT_ID"
ClientID == "AZURE_CLIENT_ID"
ClientSecret == "AZURE_CLIENT_SECRET"
GraphGroupType == "#microsoft.graph.group"
GraphUserType == "#microsoft.graph.user"
GraphUserNameAttribute == "userPrincipalName"
AzurePublicCloud == "https://login.microsoftonline.com/"

(***************************************************************************)
(* Values.                                                                 *)
(***************************************************************************)
Nil == "<nil>"              \* a nil pointer / absent value
NoErr == <<>>               \* a nil error; an error is a sequence of causes
IdNames == <<"g1", "g2", "g3", "g4">>   \* the directory's groups, in its order
GroupIds == {IdNames[i] : i \in 1..Len(IdNames)}
CoreIds == {"g1", "g2", "g3"}       \* the groups the scenarios vary
DefaultNames == <<"eng", "ops", "dev", "qa">>
OwnUser == <<"u1", "u2", "u3", "u4">>
Index(id) == CHOOSE i \in 1..Len(IdNames) : IdNames[i] = id
Users == {OwnUser[i] : i \in 1..Len(OwnUser)} \cup {"x", "new"}

Range(s) == {s[i] : i \in 1..Len(s)}
NoDupSeqs(S, n) ==
  UNION {{s \in [1..k -> S] : \A i, j \in 1..k : i # j => s[i] # s[j]} : k \in 0..n}
Perms(S) == {s \in [1..Cardinality(S) -> S] : \A i, j \in 1..Cardinality(S) : i # j => s[i] # s[j]}
RECURSIVE SumLen(_, _)
SumLen(f, S) ==
  IF S = {} THEN 0
  ELSE LET x == CHOOSE y \in S : TRUE IN Len(f[x]) + SumLen(f, S \ {x})

VARIABLES
  provider,     \* which syncer the instance is: "keycloak" or "azure"
  dir,          \* the external directory: top, sub, mem, name, attrs
  failing,      \* directory calls that fail: group ids (member queries), "list"
  store,        \* the secret store: [readable, keys]
  cfg,          \* k.Provider / a.Provider
  Secret,       \* k.Secret / a.CredentialsSecret: [set, keys]
  Token,        \* k.Token / a.Client: Nil or "ok"
  CachedGroups,         \* k.CachedGroups: the identifiers it holds
  CachedGroupMembers,   \* k.CachedGroupMembers: identifier -> usernames
  pc,           \* "idle", "walk", "emit", "base", "map", "crashed"
  groups,       \* Sync's local: the listed groups (Keycloak), aadGroups (Azure)
  idx,          \* Sync's local: position of the running loop
  stack,        \* call stack of processGroupsAndMembers: [group, j]
  ocpGroups,    \* Sync's local: the canonical groups built so far
  ret,          \* the last return: [op, err, groups, changed, panic]
  calls,        \* this Sync's directory calls, in order: [call, id, ok]
  runs,         \* number of Sync invocations started
  changes,      \* number of directory changes
  hist          \* the Sync invocations so far: [fresh, epoch, cfg, done, err, panic, out]

vars == <<provider, dir, failing, store, cfg, Secret, Token, CachedGroups,
          CachedGroupMembers, pc, groups, idx, stack, ocpGroups, ret, calls,
          runs, changes, hist>>

envVars == <<provider, dir, failing, store>>
localVars == <<groups, idx, stack, ocpGroups>>

(***************************************************************************)
(* URLs: net/url as the three kinds of string the model draws.             *)
(***************************************************************************)
UrlAbsolute == "https://sso.example.com"
UrlNoScheme == "sso.example.com"
UrlBroken == "https://sso example.com"
Urls == {UrlAbsolute, UrlNoScheme, UrlBroken}
\* url.ParseRequestURI: an absolute URI or an absolute path, nothing else
ParseRequestURIOk(u) == u \in {UrlAbsolute, AzurePublicCloud}
\* url.Parse: also accepts a relative reference; a space in the host is an error
ParseOk(u) == u # UrlBroken
Host(u) ==
  IF u = UrlAbsolute THEN "sso.example.com"
  ELSE IF u = AzurePublicCloud THEN "login.microsoftonline.com"
  ELSE ""

NoRet == [op |-> "", err |-> NoErr, groups |-> <<>>, changed |-> FALSE, panic |-> ""]
Return(op, err, gs) == [NoRet EXCEPT !.op = op, !.err = err, !.groups = gs]
Panic(op, cause) == [NoRet EXCEPT !.op = op, !.panic = cause]

\* a directory call as logged: what was asked, for which id, on behalf of which
\* parent group, and whether it succeeded
Call(call, id, parent, ok) == [call |-> call, id |-> id, parent |-> parent, ok |-> ok]

ErrList == "list groups failed"
ErrMembers(id) == "list members failed: " \o id
ErrGet == "secret not found"
ErrURL == "invalid URI for request"
ErrParse == "invalid character in host name"
ErrLogin == "401 Unauthorized"

Put(m, k, v) == [x \in DOMAIN m \cup {k} |-> IF x = k THEN v ELSE m[x]]
EmptyMap == [x \in {} |-> <<>>]
Lookup(m, k) == IF k \in DOMAIN m THEN m[k] ELSE <<>>   \* a Go map read: nil if absent

(***************************************************************************)
(* The directory as the provider's API answers.                            *)
(***************************************************************************)
\* a group as GetGroups returns it with Full set: id, name, sub-group stubs
Stub(id) == [ID |-> id, Name |-> dir.name[id], SubGroups |-> dir.sub[id]]
GetGroups == [i \in 1..Len(dir.top) |-> Stub(dir.top[i])]
GetGroupMembers(id) == dir.mem[id]

(***************************************************************************)
(* KeycloakSyncer                                                          *)
(***************************************************************************)
IsKeycloak == provider = "keycloak"

\* an Init with the conditions dropped: both defaults assigned, true returned
KInit_overwrite ==
  /\ IsKeycloak /\ pc = "idle"
  /\ cfg' = [cfg EXCEPT !.LoginRealm = masterRealm, !.Scope = SubSyncScope]
  /\ ret' = [NoRet EXCEPT !.op = "Init", !.changed = TRUE]
  /\ UNCHANGED <<envVars, Secret, Token, CachedGroups, CachedGroupMembers, pc,
                 localVars, calls, runs, changes, hist>>

KInit ==
  /\ IsKeycloak /\ pc = "idle"
  /\ LET realmUnset == cfg.LoginRealm = ""
         scopeUnset == cfg.Scope = ""
     IN /\ cfg' = [cfg EXCEPT !.LoginRealm = IF realmUnset THEN masterRealm ELSE @,
                              !.Scope = IF scopeUnset THEN SubSyncScope ELSE @]
        /\ ret' = [NoRet EXCEPT !.op = "Init", !.changed = realmUnset \/ scopeUnset]
  /\ UNCHANGED <<envVars, Secret, Token, CachedGroups, CachedGroupMembers, pc,
                 localVars, calls, runs, changes, hist>>

\* the password check as the code has it: it looks the username key up again
KPasswordKeyFound(keys) == secretUsernameKey \in keys

\* the causes Validate collects, in the code's order
KValidationErrors(readable, keys, url) ==
     (IF ~readable THEN <<ErrGet>> ELSE <<>>)
  \o (IF ~ParseRequestURIOk(url) THEN <<ErrURL>> ELSE <<>>)
  \o (IF secretUsernameKey \notin keys THEN <<"no username key">> ELSE <<>>)
  \o (IF ~KPasswordKeyFound(keys) THEN <<"no password key">> ELSE <<>>)

\* utilerrors.NewAggregate: nil for an empty list, else the list as one error
NewAggregate(errs) == errs

\* a Validate that also drops the caches, as Bind does
KValidate_rebinds ==
  /\ IsKeycloak /\ pc = "idle"
  /\ LET keys == IF store.readable THEN store.keys ELSE {}
     IN /\ Secret' = [set |-> TRUE, keys |-> keys]
        /\ ret' = Return("Validate",
                         NewAggregate(KValidationErrors(store.readable, keys, cfg.URL)), <<>>)
  /\ CachedGroups' = EmptyMap
  /\ CachedGroupMembers' = EmptyMap
  /\ UNCHANGED <<envVars, cfg, Token, pc, localVars, calls, runs, changes, hist>>

KValidate ==
  /\ IsKeycloak /\ pc = "idle"
  /\ LET keys == IF store.readable THEN store.keys ELSE {}
     IN /\ Secret' = [set |-> TRUE, keys |-> keys]
        /\ ret' = Return("Validate",
                         NewAggregate(KValidationErrors(store.readable, keys, cfg.URL)), <<>>)
  /\ UNCHANGED <<envVars, cfg, Token, CachedGroups, CachedGroupMembers, pc,
                 localVars, calls, runs, changes, hist>>

\* LoginAdmin succeeds when the secret carries both credentials
LoginOk(keys) == {secretUsernameKey, secretPasswordKey} \subseteq keys

KBind ==
  /\ IsKeycloak /\ pc = "idle"
  /\ IF ~Secret.set
     THEN \* k.Secret is nil: nil pointer dereference
          /\ pc' = "crashed"
          /\ ret' = Panic("Bind", "nil secret")
          /\ CachedGroups' = EmptyMap
          /\ CachedGroupMembers' = EmptyMap
          /\ UNCHANGED Token
     ELSE /\ CachedGroupMembers' = EmptyMap
          /\ CachedGroups' = EmptyMap
          /\ Token' = IF LoginOk(Secret.keys) THEN "ok" ELSE Nil
          /\ ret' = Return("Bind", IF LoginOk(Secret.keys) THEN NoErr ELSE <<ErrLogin>>, <<>>)
          /\ UNCHANGED pc
  /\ UNCHANGED <<envVars, cfg, Secret, localVars, calls, runs, changes, hist>>

\* a finished Sync: locals dropped, the history entry closed
Finish(r) ==
  /\ ret' = r
  /\ pc' = IF r.panic # "" THEN "crashed" ELSE "idle"
  /\ groups' = <<>> /\ idx' = 0 /\ stack' = <<>> /\ ocpGroups' = <<>>
  /\ hist' = [hist EXCEPT ![Len(hist)] =
                [@ EXCEPT !.done = TRUE, !.err = r.err, !.panic = r.panic,
                          !.out = Range(r.groups)]]

\* the history entry of a Sync that starts now
Started(done, err, panic) ==
  [fresh |-> DOMAIN CachedGroups = {}, epoch |-> changes, cfg |-> cfg, done |-> done,
   err |-> err, panic |-> panic, out |-> {}]

KSync ==
  /\ IsKeycloak /\ pc = "idle" /\ runs < MaxRuns
  /\ runs' = runs + 1
  /\ IF Token = Nil
     THEN \* k.Token is nil: nil pointer dereference
          /\ pc' = "crashed" /\ ret' = Panic("Sync", "nil token")
          /\ hist' = Append(hist, Started(TRUE, NoErr, "nil token"))
          /\ calls' = <<>>
          /\ UNCHANGED localVars
     ELSE /\ calls' = <<Call("list", "", Nil, "list" \notin failing)>>
          /\ IF "list" \in failing
             THEN /\ ret' = Return("Sync", <<ErrList>>, <<>>)
                  /\ hist' = Append(hist, Started(TRUE, <<ErrList>>, ""))
                  /\ UNCHANGED <<pc, localVars>>
             ELSE /\ groups' = GetGroups
                  /\ idx' = 1
                  /\ stack' = <<>>
                  /\ pc' = "walk"
                  /\ ret' = NoRet
                  /\ hist' = Append(hist, Started(FALSE, NoErr, ""))
                  /\ UNCHANGED ocpGroups
  /\ UNCHANGED <<envVars, cfg, Secret, Token, CachedGroups, CachedGroupMembers, changes>>

groupFound_never(id) == FALSE
\* Sync's loop: is the listed group already cached?
groupFound(id) == id \in DOMAIN CachedGroups
\* processGroupsAndMembers' loop: is the sub-group already cached?
subGroupFound(id) == id \in DOMAIN CachedGroups
ProcessSubgroups_always(scope) == TRUE
ProcessSubgroups_never(scope) == FALSE
\* "Process Subgroups": only under the sub scope
ProcessSubgroups(scope) == scope = SubSyncScope
\* bubbling that puts the fetched members before those the parent has
AddToParent_front(members, parent, groupMembers) ==
  IF parent # Nil
  THEN Put(members, parent, groupMembers \o Lookup(members, parent))
  ELSE members
\* bubbling that leaves out the members the parent already has
AddToParent_dedup(members, parent, groupMembers) ==
  IF parent # Nil
  THEN Put(members, parent,
           Lookup(members, parent)
             \o SelectSeq(groupMembers, LAMBDA m : m \notin Range(Lookup(members, parent))))
  ELSE members
\* "Add Group Members to Primary Group": the fetched members go to the parent
AddToParent(members, parent, groupMembers) ==
  IF parent # Nil
  THEN Put(members, parent, Lookup(members, parent) \o groupMembers)
  ELSE members

\* processGroupsAndMembers(group, parentGroup, scope) from its entry to its
\* loop, called with the frames `under` below it; its error return is dropped
\* by both callers
Process(group, parent, under) ==
  /\ CachedGroups' = Put(CachedGroups, group.ID, group)
  /\ calls' = Append(calls, Call("members", group.ID, parent, group.ID \notin failing))
  /\ IF group.ID \in failing
     THEN /\ UNCHANGED CachedGroupMembers
          /\ stack' = under
     ELSE /\ CachedGroupMembers' =
               AddToParent(Put(CachedGroupMembers, group.ID, GetGroupMembers(group.ID)),
                           parent, GetGroupMembers(group.ID))
          /\ stack' = Append(under, [group |-> group.ID, j |-> 1])

\* the position after the one just visited
NextIndex(i) == i + 1

KWalk ==
  /\ IsKeycloak /\ pc = "walk"
  /\ IF stack = <<>>
     THEN IF idx > Len(groups)
          THEN /\ pc' = "emit"
               /\ UNCHANGED <<idx, stack, CachedGroups, CachedGroupMembers, calls>>
          ELSE /\ idx' = NextIndex(idx)
               /\ UNCHANGED pc
               /\ IF ~groupFound(groups[idx].ID)
                  THEN Process(groups[idx], Nil, <<>>)
                  ELSE UNCHANGED <<stack, CachedGroups, CachedGroupMembers, calls>>
     ELSE LET f == stack[Len(stack)]
              subs == CachedGroups[f.group].SubGroups
              advanced == Append(SubSeq(stack, 1, Len(stack) - 1),
                                 [f EXCEPT !.j = NextIndex(f.j)])
          IN /\ UNCHANGED <<pc, idx>>
             /\ IF ProcessSubgroups(cfg.Scope) /\ f.j <= Len(subs)
                THEN IF ~subGroupFound(subs[f.j])
                     THEN Process(Stub(subs[f.j]), f.group, advanced)
                     ELSE /\ stack' = advanced
                          /\ UNCHANGED <<CachedGroups, CachedGroupMembers, calls>>
                ELSE \* return nil
                     /\ stack' = SubSeq(stack, 1, Len(stack) - 1)
                     /\ UNCHANGED <<CachedGroups, CachedGroupMembers, calls>>
  /\ UNCHANGED <<envVars, cfg, Secret, Token, groups, ocpGroups, ret, runs, changes, hist>>

\* the canonical group built from a cache entry
KOcpGroup(cachedGroup) ==
  [name |-> cachedGroup.Name,
   host |-> Host(cfg.URL),
   uid |-> cachedGroup.ID,
   users |-> Lookup(CachedGroupMembers, cachedGroup.ID)]

\* the loop over the listed groups in place of the cache: no sub-group emitted
RECURSIVE KOcpGroups_listed(_)
KOcpGroups_listed(order) ==
  IF order = <<>> THEN <<>>
  ELSE (IF Head(order) \in Range(dir.top)
        THEN <<KOcpGroup(CachedGroups[Head(order)])>> ELSE <<>>)
         \o KOcpGroups_listed(Tail(order))

\* the loop with the user list declared outside it, so that it accumulates
RECURSIVE KOcpGroups_shared(_)
KOcpGroups_shared(order) ==
  IF order = <<>> THEN <<>>
  ELSE LET before == KOcpGroups_shared(SubSeq(order, 1, Len(order) - 1))
           last == KOcpGroup(CachedGroups[order[Len(order)]])
       IN Append(before,
                 [last EXCEPT !.users =
                    (IF before = <<>> THEN <<>> ELSE before[Len(before)].users) \o @])

\* the loop over the cache in the order the map iteration yields
RECURSIVE KOcpGroups(_)
KOcpGroups(order) ==
  IF order = <<>> THEN <<>>
  ELSE <<KOcpGroup(CachedGroups[Head(order)])>> \o KOcpGroups(Tail(order))

\* the first iteration that does not complete decides how the loop ends:
\* dereferencing a nil name panics, url.Parse failing returns its error
RECURSIVE KLoopEnd(_)
KLoopEnd(order) ==
  IF order = <<>> THEN "ok"
  ELSE IF CachedGroups[Head(order)].Name = Nil THEN "panic"
  ELSE IF ~ParseOk(cfg.URL) THEN "err"
  ELSE KLoopEnd(Tail(order))

KEmit ==
  /\ IsKeycloak /\ pc = "emit"
  /\ \E order \in Perms(DOMAIN CachedGroups) :
       LET end == KLoopEnd(order)
       IN Finish(IF end = "panic" THEN Panic("Sync", "nil name")
                 ELSE IF end = "err" THEN Return("Sync", <<ErrParse>>, <<>>)
                 ELSE Return("Sync", NoErr, KOcpGroups(order)))
  /\ UNCHANGED <<envVars, cfg, Secret, Token, CachedGroups, CachedGroupMembers,
                 calls, runs, changes>>

(***************************************************************************)
(* The directory as the Graph API answers.                                 *)
(***************************************************************************)
AzGroup(id) == [ID |-> id, Name |-> dir.name[id]]
\* Groups().Get without a displayName filter: the listing
ListGroups == [i \in 1..Len(dir.top) |-> AzGroup(dir.top[i])]
\* a lookup that answers with the first group of that name alone
GroupsByName_first(n) ==
  LET hits == SelectSeq(IdNames, LAMBDA id : dir.name[id] = n)
  IN IF hits = <<>> THEN <<>> ELSE <<AzGroup(hits[1])>>
\* Groups().Get with "displayName eq '<name>'": every group of that name
GroupsByName(n) ==
  LET hits == SelectSeq(IdNames, LAMBDA id : dir.name[id] = n)
  IN [i \in 1..Len(hits) |-> AzGroup(hits[i])]
\* the directory objects that are members of a group: its member groups, then
\* its users, each with its @odata.type and the attributes it carries
GroupObject(id) == [id |-> id, type |-> GraphGroupType, displayName |-> dir.name[id],
                    attrs |-> {}]
UserObject(u) == [id |-> u, type |-> GraphUserType, displayName |-> u,
                  attrs |-> dir.attrs[u]]
MemberObjects(id) ==
     [i \in 1..Len(dir.sub[id]) |-> GroupObject(dir.sub[id][i])]
  \o [i \in 1..Len(dir.mem[id]) |-> UserObject(dir.mem[id][i])]
RECURSIVE Reach(_)
\* the identifiers reachable from S through sub-group references
Reach(S) ==
  LET N == S \cup UNION {Range(dir.sub[g]) : g \in S}
  IN IF N = S THEN S ELSE Reach(N)
RECURSIVE Flatten(_)
Flatten(ss) == IF ss = <<>> THEN <<>> ELSE Head(ss) \o Flatten(Tail(ss))
RECURSIVE Distinct(_)
\* a list without the repetitions of an element: the first occurrence stays
Distinct(s) ==
  IF s = <<>> THEN <<>>
  ELSE LET front == Distinct(SubSeq(s, 1, Len(s) - 1))
       IN IF s[Len(s)] \in Range(front) THEN front ELSE Append(front, s[Len(s)])
\* TransitiveMembers().Get: every directory object below a group, once each:
\* the nested groups, then the group's own users, then the nested groups' users
TransitiveMemberObjects(id) ==
  LET nested == SelectSeq(IdNames, LAMBDA g : g \in Reach(Range(dir.sub[id])) \ {id})
      users == Distinct(dir.mem[id] \o Flatten([i \in 1..Len(nested) |-> dir.mem[nested[i]]]))
  IN [i \in 1..Len(nested) |-> GroupObject(nested[i])]
       \o [i \in 1..Len(users) |-> UserObject(users[i])]
\* the value of an attribute a user carries
AttrValue(u, attr) == IF attr = GraphUserNameAttribute THEN u ELSE u \o "@" \o attr

(***************************************************************************)
(* AzureSyncer                                                             *)
(***************************************************************************)
IsAzure == provider = "azure"

AInit ==
  /\ IsAzure /\ pc = "idle"
  /\ CachedGroups' = EmptyMap
  /\ CachedGroupMembers' = EmptyMap
  /\ ret' = [NoRet EXCEPT !.op = "Init", !.changed = FALSE]
  /\ UNCHANGED <<envVars, cfg, Secret, Token, pc, localVars, calls, runs, changes, hist>>

ARequiredKeys == {TenantID, ClientID, ClientSecret}

\* one cause for the unreadable secret, else one cause for any missing key
AValidationErrors(readable, keys) ==
  IF ~readable THEN <<ErrGet>>
  ELSE IF TenantID \notin keys \/ ClientID \notin keys \/ ClientSecret \notin keys
       THEN <<"no tenant id, client id or client secret key">>
       ELSE <<>>

AValidate ==
  /\ IsAzure /\ pc = "idle"
  /\ Secret' = IF store.readable THEN [set |-> TRUE, keys |-> store.keys] ELSE Secret
  /\ ret' = Return("Validate", NewAggregate(AValidationErrors(store.readable, store.keys)), <<>>)
  /\ UNCHANGED <<envVars, cfg, Token, CachedGroups, CachedGroupMembers, pc,
                 localVars, calls, runs, changes, hist>>

\* NewClientSecretCredential takes the three values of the secret
CredentialOk(keys) == ARequiredKeys \subseteq keys

ABind ==
  /\ IsAzure /\ pc = "idle"
  /\ IF ~Secret.set
     THEN \* a.CredentialsSecret is nil: nil pointer dereference
          /\ pc' = "crashed"
          /\ ret' = Panic("Bind", "nil secret")
          /\ UNCHANGED Token
     ELSE /\ Token' = IF CredentialOk(Secret.keys) THEN "ok" ELSE Token
          /\ ret' = Return("Bind", IF CredentialOk(Secret.keys) THEN NoErr ELSE <<ErrLogin>>, <<>>)
          /\ UNCHANGED pc
  /\ UNCHANGED <<envVars, cfg, Secret, CachedGroups, CachedGroupMembers, localVars,
                 calls, runs, changes, hist>>

getAuthorityHost(authorityHost) ==
  IF authorityHost = Nil THEN AzurePublicCloud ELSE authorityHost

\* the loop goes on with these locals
Continue(p, g, i, o) ==
  /\ pc' = p /\ groups' = g /\ idx' = i /\ ocpGroups' = o
  /\ UNCHANGED <<stack, ret, hist>>

\* after aadGroups is complete: parse the authority host, then map
AfterListing(aadGroups) ==
  IF ~ParseOk(getAuthorityHost(cfg.AuthorityHost))
  THEN Finish(Return("Sync", <<ErrParse>>, <<>>))
  ELSE Continue("map", aadGroups, 1, <<>>)

ASync ==
  /\ IsAzure /\ pc = "idle" /\ runs < MaxRuns
  /\ runs' = runs + 1
  /\ IF Token = Nil
     THEN \* a.Client is nil: nil pointer dereference
          /\ pc' = "crashed" /\ ret' = Panic("Sync", "nil client")
          /\ hist' = Append(hist, Started(TRUE, NoErr, "nil client"))
          /\ calls' = <<>>
          /\ UNCHANGED localVars
     ELSE IF Len(cfg.BaseGroups) > 0
     THEN /\ pc' = "base" /\ groups' = <<>> /\ idx' = 1 /\ ocpGroups' = <<>>
          /\ calls' = <<>>
          /\ ret' = NoRet
          /\ hist' = Append(hist, Started(FALSE, NoErr, ""))
          /\ UNCHANGED stack
     ELSE /\ calls' = <<Call("list", "", Nil, "list" \notin failing)>>
          /\ UNCHANGED stack
          /\ IF "list" \in failing
             THEN /\ ret' = Return("Sync", <<ErrList>>, <<>>)
                  /\ hist' = Append(hist, Started(TRUE, <<ErrList>>, ""))
                  /\ UNCHANGED <<pc, groups, idx, ocpGroups>>
             ELSE IF ~ParseOk(getAuthorityHost(cfg.AuthorityHost))
             THEN /\ ret' = Return("Sync", <<ErrParse>>, <<>>)
                  /\ hist' = Append(hist, Started(TRUE, <<ErrParse>>, ""))
                  /\ UNCHANGED <<pc, groups, idx, ocpGroups>>
             ELSE /\ pc' = "map" /\ groups' = ListGroups /\ idx' = 1 /\ ocpGroups' = <<>>
                  /\ ret' = NoRet
                  /\ hist' = Append(hist, Started(FALSE, NoErr, ""))
  /\ UNCHANGED <<envVars, cfg, Secret, Token, CachedGroups, CachedGroupMembers, changes>>

\* an expansion that adds the base group alone
MemberGroups_none(members) == <<>>
\* the group-typed members of a base group, as groups with their display name
MemberGroups(members) ==
  LET gs == SelectSeq(members, LAMBDA m : m.type = GraphGroupType)
  IN [i \in 1..Len(gs) |-> [ID |-> gs[i].id, Name |-> gs[i].displayName]]
\* the unchecked type assertion on an absent displayName panics
MemberPanics(members) ==
  \E i \in 1..Len(members) :
    members[i].type = GraphGroupType /\ members[i].displayName = Nil

\* one iteration of the loop over a.Provider.BaseGroups
ABase ==
  /\ IsAzure /\ pc = "base"
  /\ IF idx > Len(cfg.BaseGroups)
     THEN AfterListing(groups) /\ UNCHANGED calls
     ELSE LET baseGroup == cfg.BaseGroups[idx]
              lookupOk == "list" \notin failing
              baseGroupResult == GroupsByName(baseGroup)
              c1 == Append(calls, Call("lookup", baseGroup, Nil, lookupOk))
          IN IF ~lookupOk
             THEN calls' = c1 /\ Finish(Return("Sync", <<ErrList>>, <<>>))
             ELSE IF Len(baseGroupResult) # 1
             THEN calls' = c1 /\ Continue("base", groups, idx + 1, ocpGroups)
             ELSE LET g == baseGroupResult[1]
                      membersOk == g.ID \notin failing
                      members == MemberObjects(g.ID)
                  IN /\ calls' = Append(c1, Call("members", g.ID, Nil, membersOk))
                     /\ IF ~membersOk
                        THEN Finish(Return("Sync", <<ErrMembers(g.ID)>>, <<>>))
                        ELSE IF MemberPanics(members)
                        THEN Finish(Panic("Sync", "nil displayName"))
                        ELSE Continue("base", groups \o <<g>> \o MemberGroups(members),
                                      idx + 1, ocpGroups)
  /\ UNCHANGED <<envVars, cfg, Secret, Token, CachedGroups, CachedGroupMembers,
                 runs, changes>>

\* isUsernamePresent: the value is dereferenced before `found` is looked at
isUsernamePresent(user, field) ==
  IF field \in user.attrs
  THEN [panic |-> FALSE, found |-> TRUE, username |-> AttrValue(user.id, field)]
  ELSE [panic |-> TRUE, found |-> FALSE, username |-> ""]

RECURSIVE FirstPresent(_, _)
FirstPresent(user, attributes) ==
  IF attributes = <<>> THEN [panic |-> FALSE, found |-> FALSE, username |-> ""]
  ELSE LET r == isUsernamePresent(user, Head(attributes))
       IN IF r.panic \/ r.found THEN r ELSE FirstPresent(user, Tail(attributes))

getUsernameForUser(user) ==
  IF cfg.UserNameAttributes = Nil
  THEN isUsernamePresent(user, GraphUserNameAttribute)
  ELSE FirstPresent(user, cfg.UserNameAttributes)

\* listGroupMembers after its query succeeded: the usernames of the user-typed
\* members, or a panic
RECURSIVE UsernamesOf(_)
UsernamesOf(members) ==
  IF members = <<>> THEN [panic |-> FALSE, users |-> <<>>]
  ELSE LET member == Head(members)
           rest == UsernamesOf(Tail(members))
       IN IF member.type # GraphUserType THEN rest
          ELSE LET r == getUsernameForUser(member)
               IN IF r.panic THEN [panic |-> TRUE, users |-> <<>>]
                  ELSE IF r.found
                       THEN [rest EXCEPT !.users = <<r.username>> \o @]
                       ELSE rest

\* the allow-list predicate: an empty or absent list allows every group
isGroupAllowed(groupName, allowedGroups) ==
  Len(allowedGroups) = 0 \/ groupName \in Range(allowedGroups)

ASkips_nameless(groupName) == groupName = Nil
\* the two `continue`s of the mapping loop
ASkips(groupName) ==
  groupName = Nil \/ ~isGroupAllowed(groupName, cfg.Groups)

AOcpGroup(group, users) ==
  [name |-> group.Name,
   host |-> Host(getAuthorityHost(cfg.AuthorityHost)),
   uid |-> group.ID,
   users |-> users]

\* one iteration of the loop over aadGroups
AMap ==
  /\ IsAzure /\ pc = "map"
  /\ IF idx > Len(groups)
     THEN Finish(Return("Sync", NoErr, ocpGroups)) /\ UNCHANGED calls
     ELSE LET group == groups[idx]
              ok == group.ID \notin failing
              r == UsernamesOf(TransitiveMemberObjects(group.ID))
          IN IF ASkips(group.Name)
             THEN Continue("map", groups, idx + 1, ocpGroups) /\ UNCHANGED calls
             ELSE /\ calls' = Append(calls, Call("transitive", group.ID, Nil, ok))
                  /\ IF ~ok THEN Finish(Return("Sync", <<ErrMembers(group.ID)>>, <<>>))
                     ELSE IF r.panic THEN Finish(Panic("Sync", "nil username"))
                     ELSE Continue("map", groups, idx + 1,
                                   Append(ocpGroups, AOcpGroup(group, r.users)))
  /\ UNCHANGED <<envVars, cfg, Secret, Token, CachedGroups, CachedGroupMembers,
                 runs, changes>>

(***************************************************************************)
(* The directory changes, at most once, between two Sync invocations.       *)
(***************************************************************************)
DirChange ==
  /\ pc = "idle" /\ changes = 0 /\ 0 < runs /\ runs < MaxRuns
  /\ changes' = changes + 1
  /\ dir.top # <<>>
  /\ LET g == dir.top[Len(dir.top)]
     IN \/ dir' = [dir EXCEPT !.top = SubSeq(@, 1, Len(@) - 1)]   \* the group is removed
        \/ dir' = [dir EXCEPT !.mem[g] = <<"new">>]               \* its members change
  /\ UNCHANGED <<provider, failing, store, cfg, Secret, Token, CachedGroups,
                 CachedGroupMembers, pc, localVars, ret, calls, runs, hist>>

(***************************************************************************)
(* Initial states.                                                         *)
(***************************************************************************)
TopLists == {[i \in 1..k |-> IdNames[i]] : k \in 1..MaxTop}
\* every graph of at most MaxEdges sub-group references among the core groups
SubGraphs ==
  {[g \in GroupIds |-> IF g \in CoreIds THEN s[g] ELSE <<>>] :
     s \in {t \in [CoreIds -> NoDupSeqs(CoreIds, MaxEdges)] : SumLen(t, CoreIds) <= MaxEdges}}
DefaultName == [g \in GroupIds |-> DefaultNames[Index(g)]]
DefaultMem == [g \in GroupIds |-> <<OwnUser[Index(g)], "x">>]
NoSub == [g \in GroupIds |-> <<>>]
Chain == [g \in GroupIds |-> IF g = "g1" THEN <<"g2">> ELSE IF g = "g2" THEN <<"g3">> ELSE <<>>]
Fan == [g \in GroupIds |-> IF g = "g1" THEN <<"g2", "g3">> ELSE <<>>]
\* g4 is a sub-group of the two siblings g2 and g3
Diamond == [g \in GroupIds |-> IF g = "g1" THEN <<"g2", "g3">>
                               ELSE IF g \in {"g2", "g3"} THEN <<"g4">> ELSE <<>>]
\* the user x is a direct member of the siblings g2 and g3 only
SiblingMem == [g \in GroupIds |-> IF g \in {"g2", "g3"} THEN <<OwnUser[Index(g)], "x">>
                                  ELSE <<OwnUser[Index(g)]>>]
AllAttrs == [u \in Users |-> {GraphUserNameAttribute, "mail"}]
\* the default names with at most one group renamed: nameless, empty, or a duplicate
NameProfiles ==
  {DefaultName} \cup {[DefaultName EXCEPT ![g] = n] : g \in CoreIds, n \in {Nil, "", "eng"}}
\* every user complete, or one user lacking one attribute or both
AttrProfiles ==
  {AllAttrs} \cup {[AllAttrs EXCEPT !["x"] = a] : a \in {{GraphUserNameAttribute}, {"mail"}, {}}}
FailSets == {{}} \cup {{t} : t \in CoreIds \cup {"list"}}
DefaultDir ==
  [top |-> <<"g1", "g2">>, sub |-> NoSub, mem |-> DefaultMem, name |-> DefaultName,
   attrs |-> AllAttrs]

KKeys == {secretUsernameKey, secretPasswordKey}
KDefaultCfg ==
  [URL |-> UrlAbsolute, LoginRealm |-> "realm", Scope |-> SubSyncScope,
   Groups |-> <<>>, BaseGroups |-> <<>>, UserNameAttributes |-> Nil,
   AuthorityHost |-> Nil]
ADefaultCfg == [KDefaultCfg EXCEPT !.LoginRealm = "", !.Scope = ""]
AllowLists == {<<>>, <<"eng">>, <<"ops", "dev">>}
BaseGroupLists == {<<>>, <<"eng">>, <<"none", "ops">>, <<"eng", "ops">>}
AttributeLists == {Nil, <<>>, <<"mail">>, <<"mail", GraphUserNameAttribute>>}

Fresh ==
  /\ Secret = [set |-> FALSE, keys |-> {}]
  /\ Token = Nil
  /\ CachedGroups = EmptyMap
  /\ CachedGroupMembers = EmptyMap
  /\ pc = "idle"
  /\ groups = <<>> /\ idx = 0 /\ stack = <<>> /\ ocpGroups = <<>>
  /\ ret = NoRet
  /\ calls = <<>>
  /\ runs = 0 /\ changes = 0
  /\ hist = <<>>

\* Keycloak over every sub-group graph: under both scopes with a directory
\* that answers, under the sub scope with one failing member listing
InitKHierarchy ==
  /\ provider = "keycloak"
  /\ \E t \in TopLists, s \in SubGraphs : dir = [DefaultDir EXCEPT !.top = t, !.sub = s]
  /\ store = [readable |-> TRUE, keys |-> KKeys]
  /\ \/ /\ failing = {}
        /\ \E sc \in {OneSyncScope, SubSyncScope} : cfg = [KDefaultCfg EXCEPT !.Scope = sc]
     \/ /\ failing \in {{"g2"}, {"g3"}}
        /\ cfg = KDefaultCfg

\* Keycloak over the groups' names, under both scopes
InitKNames ==
  /\ provider = "keycloak"
  /\ \E t \in TopLists, s \in {NoSub, Chain}, n \in NameProfiles :
       dir = [DefaultDir EXCEPT !.top = t, !.sub = s, !.name = n]
  /\ failing \in FailSets
  /\ store = [readable |-> TRUE, keys |-> KKeys]
  /\ \E sc \in {OneSyncScope, SubSyncScope} : cfg = [KDefaultCfg EXCEPT !.Scope = sc]

\* Keycloak over two siblings that share a user, with and without a common
\* sub-group
InitKSiblings ==
  /\ provider = "keycloak"
  /\ \E t \in TopLists, s \in {Fan, Diamond} :
       dir = [DefaultDir EXCEPT !.top = t, !.sub = s, !.mem = SiblingMem]
  /\ failing = {}
  /\ store = [readable |-> TRUE, keys |-> KKeys]
  /\ cfg = KDefaultCfg

\* Keycloak over its configuration and the secret it is pointed at
InitKConfig ==
  /\ provider = "keycloak"
  /\ dir = DefaultDir
  /\ failing = {}
  /\ \E r \in BOOLEAN, k \in SUBSET KKeys : store = [readable |-> r, keys |-> k]
  /\ \E u \in Urls, lr \in {"", "realm"}, sc \in {"", OneSyncScope, SubSyncScope} :
       cfg = [KDefaultCfg EXCEPT !.URL = u, !.LoginRealm = lr, !.Scope = sc]

\* Azure over names, allow-lists and base groups
InitANames ==
  /\ provider = "azure"
  /\ \E t \in TopLists, n \in NameProfiles :
       dir = [DefaultDir EXCEPT !.top = t, !.sub = Fan, !.name = n]
  /\ failing \in FailSets
  /\ store = [readable |-> TRUE, keys |-> ARequiredKeys]
  /\ \E al \in AllowLists, bg \in BaseGroupLists :
       cfg = [ADefaultCfg EXCEPT !.Groups = al, !.BaseGroups = bg]

\* Azure over every member graph of the base groups
InitAHierarchy ==
  /\ provider = "azure"
  /\ \E s \in SubGraphs : dir = [DefaultDir EXCEPT !.sub = s]
  /\ failing = {}
  /\ store = [readable |-> TRUE, keys |-> ARequiredKeys]
  /\ \E bg \in BaseGroupLists \ {<<>>} : cfg = [ADefaultCfg EXCEPT !.BaseGroups = bg]

\* Azure over its configuration, the secret and the users' attributes
InitAConfig ==
  /\ provider = "azure"
  /\ \E a \in AttrProfiles : dir = [DefaultDir EXCEPT !.attrs = a]
  /\ failing = {}
  /\ \E r \in BOOLEAN, k \in SUBSET ARequiredKeys : store = [readable |-> r, keys |-> k]
  /\ \E ah \in {Nil, UrlAbsolute, UrlBroken}, una \in AttributeLists :
       cfg = [ADefaultCfg EXCEPT !.AuthorityHost = ah, !.UserNameAttributes = una]

Init ==
  /\ Fresh
  /\ \/ InitKHierarchy
     \/ InitKNames
     \/ InitKSiblings
     \/ InitKConfig
     \/ InitAHierarchy
     \/ InitANames
     \/ InitAConfig

Next ==
  \/ KInit
  \/ KValidate
  \/ KBind
  \/ KSync
  \/ KWalk
  \/ KEmit
  \/ AInit
  \/ AValidate
  \/ ABind
  \/ ASync
  \/ ABase
  \/ AMap
  \/ DirChange

Spec == Init /\ [][Next]_vars

\* The Keycloak syncer alone. Sync is one synchronous call: once started,
\* its walk and its emission run to the return
KeycloakInit == Init /\ provider = "keycloak"

KeycloakNext ==
  \/ KInit
  \/ KValidate
  \/ KBind
  \/ KSync
  \/ KWalk
  \/ KEmit
  \/ DirChange

FairSpec == KeycloakInit /\ [][KeycloakNext]_vars /\ WF_vars(KWalk) /\ WF_vars(KEmit)

(***************************************************************************)
(* Properties.                                                             *)
(***************************************************************************)
SyncReturned == pc = "idle" /\ ret.op = "Sync"
SyncSucceeded == SyncReturned /\ ret.err = NoErr
FailedCalls == {i \in 1..Len(calls) : ~calls[i].ok}
CallError(c) == IF c.call \in {"list", "lookup"} THEN ErrList ELSE ErrMembers(c.id)
MemberCalls(id) == {i \in 1..Len(calls) : calls[i].call = "members" /\ calls[i].id = id}
Emitted(id) == {i \in 1..Len(ret.groups) : ret.groups[i].uid = id}
\* the usernames Sync returned for a native identifier
UsersOf(id) == UNION {Range(ret.groups[i].users) : i \in Emitted(id)}
StartedFresh == hist # <<>> /\ hist[Len(hist)].fresh

\* C1: once a group-listing or member-listing call of a Sync has failed, that
\* Sync returns no canonical group, and it returns the error of a failed call.
C1_FetchFailureAborts ==
  (SyncReturned /\ FailedCalls # {})
    => /\ ret.groups = <<>>
       /\ \E i \in FailedCalls : ret.err = <<CallError(calls[i])>>

\* C2: under the sub scope, when the Keycloak Sync has returned, every
\* username returned for a group that was processed as the child of a parent
\* is also returned for that parent.
C2_ChildUsersInParent ==
  (IsKeycloak /\ SyncSucceeded /\ cfg.Scope = SubSyncScope)
    => \A i \in 1..Len(calls) :
         calls[i].parent # Nil => UsersOf(calls[i].id) \subseteq UsersOf(calls[i].parent)

\* C3: under the group-only scope the Keycloak Sync asks for the members of
\* listed groups only, never on behalf of a parent, never nests a call of
\* processGroupsAndMembers, and, started on an empty cache, returns for each
\* group exactly the members the directory lists for it (none if that query
\* failed).
C3_GroupOnlyNeverRecurses ==
  (IsKeycloak /\ cfg.Scope # SubSyncScope)
    => /\ \A i \in 1..Len(calls) : calls[i].parent = Nil
       /\ Len(stack) <= 1
       /\ pc = "walk" =>
            \A i \in 1..Len(calls) :
              calls[i].call = "members" => \E j \in 1..Len(groups) : groups[j].ID = calls[i].id
       /\ (SyncSucceeded /\ StartedFresh /\ hist[Len(hist)].epoch = changes) =>
            \A i \in 1..Len(ret.groups) :
              LET id == ret.groups[i].uid
              IN /\ id \in Range(dir.top)
                 /\ ret.groups[i].users = IF id \in failing THEN <<>> ELSE dir.mem[id]

\* C3 happens: a group-only Sync returned a listed group that has sub-groups
C3_Witness ==
  /\ IsKeycloak /\ cfg.Scope = OneSyncScope /\ SyncSucceeded /\ StartedFresh
  /\ \E i \in 1..Len(ret.groups) :
       /\ dir.sub[ret.groups[i].uid] # <<>>
       /\ ret.groups[i].users # <<>>
       /\ \E g \in Range(dir.sub[ret.groups[i].uid]) : g \notin DOMAIN CachedGroups

Listed == {groups[i].ID : i \in 1..Len(groups)}
WalkDone == IsKeycloak /\ pc = "emit"

\* C4: the walk a Sync starts always ends, whatever the sub-group graph; and
\* when it ends under the sub scope, started on an empty cache and with no
\* failed query, every identifier reachable from the listed groups through
\* sub-group stubs is in the cache.
C4_WalkTerminatesAndCovers ==
  /\ (pc = "walk") ~> (pc = "emit")
  /\ []((WalkDone /\ cfg.Scope = SubSyncScope /\ StartedFresh /\ FailedCalls = {})
          => Reach(Listed) \subseteq DOMAIN CachedGroups)

\* C4 happens: a walk over a graph with a cycle has ended with every
\* reachable group cached
C4_Witness ==
  /\ WalkDone /\ cfg.Scope = SubSyncScope /\ StartedFresh /\ FailedCalls = {}
  /\ \E g \in Reach(Listed) : g \in Reach(Range(dir.sub[g]))
  /\ Cardinality(Reach(Listed)) >= 2
  /\ Reach(Listed) = DOMAIN CachedGroups

InSync == pc \in {"walk", "emit"} \/ SyncReturned
\* the ways the walk comes across an identifier: the listing, and each cached parent
Ways(id) ==
  Cardinality({i \in 1..Len(dir.top) : dir.top[i] = id})
    + Cardinality({p \in DOMAIN CachedGroups : id \in Range(dir.sub[p])})

\* C5: within one Keycloak Sync the members of an identifier are asked for at
\* most once; an identifier asked for is in the cache; a sub-group is asked
\* for only after its parent was; and, started on an empty cache, the cache
\* holds exactly the identifiers asked for.
C5_EachIdentifierOnce ==
  (IsKeycloak /\ InSync)
    => /\ \A id \in GroupIds : Cardinality(MemberCalls(id)) <= 1
       /\ \A i \in 1..Len(calls) :
            /\ calls[i].call = "members" => calls[i].id \in DOMAIN CachedGroups
            /\ calls[i].parent # Nil =>
                 \E j \in 1..(i - 1) : calls[j].call = "members" /\ calls[j].id = calls[i].parent
       /\ StartedFresh => DOMAIN CachedGroups = {id \in GroupIds : MemberCalls(id) # {}}

\* C5 happens: a walk has ended in which an identifier was come across more
\* than once and asked for once
C5_Witness ==
  /\ WalkDone /\ cfg.Scope = SubSyncScope /\ StartedFresh
  /\ \E id \in GroupIds : Ways(id) >= 2 /\ Cardinality(MemberCalls(id)) = 1

\* C6: a group without a usable display name is never in Sync's output and
\* never makes Sync crash.
C6_NamelessGroupDropped ==
  /\ SyncSucceeded => \A i \in 1..Len(ret.groups) : ret.groups[i].name \notin {Nil, ""}
  /\ pc = "crashed" => ret.panic \notin {"nil name", "nil displayName"}

\* the native identifiers of the groups with a display name, in order
RECURSIVE NamedIds(_)
NamedIds(gs) ==
  IF gs = <<>> THEN <<>>
  ELSE (IF Head(gs).Name # Nil THEN <<Head(gs).ID>> ELSE <<>>) \o NamedIds(Tail(gs))

\* C7: with a non-empty allow-list every group Sync returns, and every group
\* it has built so far, bears a name that is an entry of the list; with an
\* empty one the Azure mapping loop has built a group for every discovered
\* group with a display name that it has passed, and the Keycloak Sync, which
\* reads no allow-list, returns a group for every cached identifier.
C7_AllowListFilters ==
  /\ \A i \in 1..Len(ret.groups) :
       cfg.Groups # <<>> => ret.groups[i].name \in Range(cfg.Groups)
  /\ (IsKeycloak /\ SyncSucceeded)
       => {ret.groups[i].uid : i \in 1..Len(ret.groups)} = DOMAIN CachedGroups
  /\ \A i \in 1..Len(ocpGroups) :
       cfg.Groups # <<>> => ocpGroups[i].name \in Range(cfg.Groups)
  /\ (IsAzure /\ pc = "map" /\ cfg.Groups = <<>>)
       => [i \in 1..Len(ocpGroups) |-> ocpGroups[i].uid]
            = NamedIds(SubSeq(groups, 1, idx - 1))

\* C7 happens: under the allow-list <<"eng">> a Sync returned the group eng
\* and left a listed group of another name out
C7_Witness ==
  /\ IsAzure /\ SyncSucceeded /\ cfg.Groups = <<"eng">> /\ cfg.BaseGroups = <<>>
  /\ hist[Len(hist)].epoch = changes
  /\ \E i \in 1..Len(ret.groups) : ret.groups[i].name = "eng"
  /\ \E g \in Range(dir.top) : dir.name[g] \notin {Nil, "eng"} /\ Emitted(g) = {}

\* C8: the cache is empty whenever a Sync starts, and empty again once a Sync
\* has returned its groups.
C8_CacheNeverOutlivesSync ==
  /\ \A i \in 1..Len(hist) : hist[i].fresh
  /\ SyncSucceeded => DOMAIN CachedGroups = {}

\* C9: two Sync invocations that both return, both started on an empty cache,
\* with the same configuration and no directory change between them, return
\* the same error and the same set of canonical groups.
C9_SameDirectorySameOutput ==
  \A i, j \in 1..Len(hist) :
    ( /\ hist[i].done /\ hist[j].done
      /\ hist[i].panic = "" /\ hist[j].panic = ""
      /\ hist[i].fresh /\ hist[j].fresh
      /\ hist[i].epoch = hist[j].epoch
      /\ hist[i].cfg = hist[j].cfg )
    => hist[i].out = hist[j].out /\ hist[i].err = hist[j].err

\* C9 happens: two such Keycloak invocations returned several groups, one of
\* them with bubbled members
C9_Witness ==
  /\ IsKeycloak /\ Len(hist) = 2
  /\ hist[1].done /\ hist[2].done /\ hist[1].fresh /\ hist[2].fresh
  /\ hist[1].epoch = hist[2].epoch /\ hist[1].cfg = hist[2].cfg
  /\ Cardinality(hist[2].out) >= 2
  /\ \E g \in hist[2].out : Len(g.users) > 2

\* the structural problems of the configuration and of the secret
KProblems ==
  \/ ~store.readable
  \/ ~ParseRequestURIOk(cfg.URL)
  \/ secretUsernameKey \notin store.keys
  \/ secretPasswordKey \notin store.keys
AProblems ==
  \/ ~store.readable
  \/ \E k \in ARequiredKeys : k \notin store.keys

\* C10: Validate returns nil exactly when there is no structural problem.
C10_ValidateFindsEveryProblem ==
  (pc = "idle" /\ ret.op = "Validate")
    => (ret.err = NoErr <=> ~(IF IsKeycloak THEN KProblems ELSE AProblems))

\* C11: in the output of one Sync no two canonical groups bear the same name
\* and no native identifier is emitted more than once.
C11_OutputUnique ==
  SyncSucceeded =>
    \A i, j \in 1..Len(ret.groups) :
      i # j => /\ ret.groups[i].name # ret.groups[j].name
               /\ ret.groups[i].uid # ret.groups[j].uid

InitStep == KInit \/ AInit
\* a step fills a configuration value that was unset / leaves the value alone
Filled(f, default) == cfg[f] = "" /\ cfg'[f] = default
Kept(f) == cfg'[f] = cfg[f]

\* C12: Init fills the login realm and the scope when they are unset and keeps
\* every value that is set; it returns true exactly when it filled one; after
\* it no Keycloak default is unset; and an Init that follows an Init changes
\* no configuration value and returns false.
C12_InitFillsDefaultsOnce ==
  /\ [][InitStep =>
          /\ \A f \in DOMAIN cfg \ {"LoginRealm", "Scope"} : Kept(f)
          /\ Filled("LoginRealm", masterRealm) \/ Kept("LoginRealm")
          /\ Filled("Scope", SubSyncScope) \/ Kept("Scope")
          /\ IsAzure => cfg' = cfg
          /\ ret'.op = "Init"
          /\ ret'.changed <=> (Filled("LoginRealm", masterRealm) \/ Filled("Scope", SubSyncScope))
          /\ IsKeycloak => cfg'.LoginRealm # "" /\ cfg'.Scope # ""
          /\ ret.op = "Init" => cfg' = cfg /\ ~ret'.changed]_vars
  /\ []((IsKeycloak /\ ret.op = "Init") => cfg.LoginRealm # "" /\ cfg.Scope # "")

\* C12 happens: a second Init has returned false on a configuration whose
\* realm the first had filled and whose scope was set from the start
C12_Witness ==
  /\ IsKeycloak /\ ret.op = "Init" /\ ~ret.changed
  /\ cfg.LoginRealm = masterRealm /\ cfg.Scope = OneSyncScope

\* how often a username occurs in a list
Count(u, s) == Cardinality({i \in 1..Len(s) : s[i] = u})
\* the user list of the canonical group returned for a native identifier
UserListOf(id) == ret.groups[CHOOSE i \in Emitted(id) : TRUE].users
\* the member queries that succeeded on behalf of a parent
ChildCalls(parent) == {i \in 1..Len(calls) : calls[i].parent = parent /\ calls[i].ok}
OwnFetched(id) == \E i \in MemberCalls(id) : calls[i].ok
RECURSIVE CountIn(_, _)
\* the occurrences of a username in the directory's member lists of the
\* groups the calls S asked for
CountIn(u, S) ==
  IF S = {} THEN 0
  ELSE LET c == CHOOSE i \in S : TRUE
       IN Count(u, dir.mem[calls[c].id]) + CountIn(u, S \ {c})
\* a Keycloak Sync has returned its groups from an empty cache and the
\* directory is as it was
FreshOutput ==
  /\ IsKeycloak /\ SyncSucceeded /\ StartedFresh
  /\ hist[Len(hist)].epoch = changes

ValidateStep == KValidate \/ AValidate
\* the secret as read from the store: no data when the read failed
SecretRead == [set |-> TRUE, keys |-> IF store.readable THEN store.keys ELSE {}]

\* C14 as stated: Validate changes neither the stored credential, nor the
\* caches, nor the client or token, nor the configuration.
C14_ValidateChangesNothing ==
  [][ValidateStep =>
       /\ Secret' = Secret
       /\ UNCHANGED <<cfg, Token, CachedGroups, CachedGroupMembers>>]_vars

\* C14, amended: Validate changes the stored credential only. The Keycloak
\* syncer stores the secret it read, an empty one when the read failed; the
\* Azure syncer stores it when the read succeeded; configuration, client or
\* token and caches stay as they were.
C14_ValidateStoresSecretOnly ==
  [][ValidateStep =>
       /\ UNCHANGED <<cfg, Token, CachedGroups, CachedGroupMembers>>
       /\ Secret' = IF IsKeycloak \/ store.readable THEN SecretRead ELSE Secret
       /\ ret'.op = "Validate"]_vars

\* C14 happens: a Validate that failed has returned on an instance that holds
\* a token and a filled cache
C14_Witness ==
  /\ pc = "idle" /\ ret.op = "Validate" /\ ret.err # NoErr
  /\ Secret.set /\ Token = "ok" /\ DOMAIN CachedGroups # {}

\* the keys Validate has in hand: none when the secret could not be read
KeysRead == IF store.readable THEN store.keys ELSE {}
\* the cause each structural problem of the Keycloak provider should leave
KExpectedCauses ==
       (IF ~store.readable THEN {ErrGet} ELSE {})
  \cup (IF ~ParseRequestURIOk(cfg.URL) THEN {ErrURL} ELSE {})
  \cup (IF secretUsernameKey \notin KeysRead THEN {"no username key"} ELSE {})
  \cup (IF secretPasswordKey \notin KeysRead THEN {"no password key"} ELSE {})
\* the same for the Azure provider, whose Validate looks at the secret only
AExpectedCauses ==
  IF ~store.readable THEN {ErrGet}
  ELSE IF ARequiredKeys \subseteq store.keys THEN {}
  ELSE {"no tenant id, client id or client secret key"}
ExpectedCauses == IF IsKeycloak THEN KExpectedCauses ELSE AExpectedCauses

BaseHits ==
  {GroupsByName(cfg.BaseGroups[i])[1].ID :
     i \in {j \in 1..Len(cfg.BaseGroups) : Len(GroupsByName(cfg.BaseGroups[j])) = 1}}
\* the identifiers of their group-typed members
ExpandedMembers == UNION {Range(dir.sub[b]) : b \in BaseHits}
\* an Azure Sync over base groups has returned its groups and the directory
\* is as it was
BaseOutput ==
  /\ IsAzure /\ SyncSucceeded /\ cfg.BaseGroups # <<>>
  /\ hist[Len(hist)].epoch = changes

\* C16 as stated: a group-typed member of a base group that has a display
\* name is emitted whether or not the allow-list holds its name.
C16_MembersBypassAllowList ==
  BaseOutput =>
    \A m \in ExpandedMembers : dir.name[m] # Nil => Emitted(m) # {}

\* C16, amended: the allow-list is applied to the group-typed members of a
\* base group as to every discovered group: such a member is emitted exactly
\* when it has a display name and the allow-list is empty or holds that name.
C16_AllowListCoversMembers ==
  BaseOutput =>
    \A m \in ExpandedMembers :
      Emitted(m) # {} <=> (dir.name[m] # Nil /\ isGroupAllowed(dir.name[m], cfg.Groups))

\* C16 happens: of the members of a base group one, whose name the allow-list
\* holds, was emitted and another, whose name it does not hold, was left out
C16_Witness ==
  /\ BaseOutput /\ cfg.Groups # <<>>
  /\ \E m \in ExpandedMembers : dir.name[m] \in Range(cfg.Groups) /\ Emitted(m) # {}
  /\ \E m \in ExpandedMembers : dir.name[m] \notin Range(cfg.Groups) \cup {Nil} /\ Emitted(m) = {}

\* the host of the URL the provider is configured with
ProviderHost ==
  IF IsKeycloak THEN Host(cfg.URL) ELSE Host(getAuthorityHost(cfg.AuthorityHost))

\* C17: every canonical group Sync returns bears the identifier and the name
\* of one directory group and the host of the provider URL; the Keycloak Sync
\* returns exactly one group for each identifier in the cache, with the
\* cached members of that identifier, so a sub-group whose members were
\* bubbled into its parent is returned as a group of its own as well.
C17_AnnotationsAndOnePerEntry ==
  SyncSucceeded =>
    /\ \A i \in 1..Len(ret.groups) :
         /\ ret.groups[i].host = ProviderHost
         /\ ret.groups[i].uid \in GroupIds
         /\ ret.groups[i].name = dir.name[ret.groups[i].uid]
    /\ IsKeycloak =>
         /\ Len(ret.groups) = Cardinality(DOMAIN CachedGroups)
         /\ \A id \in DOMAIN CachedGroups :
              /\ Cardinality(Emitted(id)) = 1
              /\ UserListOf(id) = Lookup(CachedGroupMembers, id)
         /\ \A i \in 1..Len(calls) :
              calls[i].parent # Nil =>
                Emitted(calls[i].id) # {} /\ Emitted(calls[i].parent) # {}

\* C17 happens: a Keycloak Sync returned a sub-group next to the parent its
\* members were bubbled into, both with the host of the URL
C17_Witness ==
  /\ IsKeycloak /\ SyncSucceeded /\ ProviderHost = "sso.example.com"
  /\ \E i \in 1..Len(calls) :
       /\ calls[i].parent # Nil /\ calls[i].ok
       /\ Emitted(calls[i].id) # {}
       /\ Len(UserListOf(calls[i].parent)) > Len(dir.mem[calls[i].parent])

RECURSIVE BubbledInOrder(_, _)
\* the directory's member lists of the sub-groups queried on behalf of a
\* parent among the first n calls, in the order of the calls
BubbledInOrder(parent, n) ==
  IF n = 0 THEN <<>>
  ELSE BubbledInOrder(parent, n - 1)
         \o (IF calls[n].parent = parent /\ calls[n].ok THEN dir.mem[calls[n].id] ELSE <<>>)
\* a user for whom one of the configured attributes yields a username
Resolves(user) == getUsernameForUser(user).found
\* the user-typed objects the Graph API lists below a group, in its order,
\* without those no username is found for
ResolvedUsers(id) ==
  SelectSeq(TransitiveMemberObjects(id), LAMBDA m : m.type = GraphUserType /\ Resolves(m))

\* C18: the user list of a canonical group keeps the provider's order. From
\* Keycloak it is the group's own members as the directory lists them, then
\* the members of each sub-group queried on its behalf, in the order of the
\* queries, each as the directory lists them. From Azure it is the usernames
\* of the users the directory lists, in its order, without those no username
\* is found for.
C18_MemberOrderPreserved ==
  /\ FreshOutput =>
       \A i \in 1..Len(ret.groups) :
         ret.groups[i].users
           = (IF OwnFetched(ret.groups[i].uid) THEN dir.mem[ret.groups[i].uid] ELSE <<>>)
               \o BubbledInOrder(ret.groups[i].uid, Len(calls))
  /\ (IsAzure /\ SyncSucceeded /\ hist[Len(hist)].epoch = changes) =>
       \A i \in 1..Len(ret.groups) :
         LET listed == ResolvedUsers(ret.groups[i].uid)
         IN ret.groups[i].users
              = [k \in 1..Len(listed) |-> getUsernameForUser(listed[k]).username]

\* C18 happens: a Keycloak group was returned with its own members first and
\* the members of two sub-groups after them
C18_Witness ==
  /\ FreshOutput
  /\ \E i \in 1..Len(ret.groups) :
       /\ OwnFetched(ret.groups[i].uid)
       /\ Cardinality(ChildCalls(ret.groups[i].uid)) >= 2
       /\ Len(ret.groups[i].users) >= 5

\* the attributes looked at for a username, in order
ConfiguredAttributes ==
  IF cfg.UserNameAttributes = Nil THEN <<GraphUserNameAttribute>> ELSE cfg.UserNameAttributes
\* those of them a user carries, in the same order
PresentAttributes(user) == SelectSeq(ConfiguredAttributes, LAMBDA a : a \in user.attrs)
\* the usernames of the user-typed objects that carry a configured attribute,
\* each by the first such attribute
RECURSIVE FirstAttributeNames(_)
FirstAttributeNames(members) ==
  IF members = <<>> THEN <<>>
  ELSE LET m == Head(members)
       IN (IF m.type = GraphUserType /\ PresentAttributes(m) # <<>>
           THEN <<AttrValue(m.id, Head(PresentAttributes(m)))>> ELSE <<>>)
            \o FirstAttributeNames(Tail(members))

\* C19: a user who lacks a configured username attribute never makes the
\* Azure Sync crash or fail; the user list of each returned group holds, for
\* each user-typed member that carries a configured attribute, the value of
\* the first one it carries, and nothing for the other members.
C19_MissingAttributeSkipped ==
  /\ pc = "crashed" => ret.panic # "nil username"
  /\ (IsAzure /\ SyncSucceeded /\ hist[Len(hist)].epoch = changes) =>
       \A i \in 1..Len(ret.groups) :
         ret.groups[i].users
           = FirstAttributeNames(TransitiveMemberObjects(ret.groups[i].uid))

\* the directory groups that bear a display name
NameHits(n) == {g \in GroupIds : dir.name[g] = n}
SingleHit(n) == Cardinality(NameHits(n)) = 1
HitOf(n) == CHOOSE g \in NameHits(n) : TRUE
RECURSIVE Expanded(_)
\* what the base-group names contribute: for each name borne by exactly one
\* group that group and its group-typed members, for any other name nothing
Expanded(names) ==
  IF names = <<>> THEN <<>>
  ELSE LET n == names[Len(names)]
       IN Expanded(SubSeq(names, 1, Len(names) - 1))
            \o (IF SingleHit(n)
                THEN <<AzGroup(HitOf(n))>>
                       \o [i \in 1..Len(dir.sub[HitOf(n)]) |-> AzGroup(dir.sub[HitOf(n)][i])]
                ELSE <<>>)
\* what this Sync asked the directory, by kind of call, in order
Asked(kind) ==
  LET cs == SelectSeq(calls, LAMBDA c : c.call = kind)
  IN [i \in 1..Len(cs) |-> cs[i].id]
\* the groups whose members the base-group names make Sync ask for
RECURSIVE SingleHits(_)
SingleHits(names) ==
  IF names = <<>> THEN <<>>
  ELSE (IF SingleHit(Head(names)) THEN <<HitOf(Head(names))>> ELSE <<>>)
         \o SingleHits(Tail(names))

\* C20: a base-group name that no directory group or more than one bears is
\* passed over: it adds no group, no member query is made for it, and the
\* names after it are looked up all the same; a Sync over base groups that
\* returns an error returns that of a failed call or of the URL parse.
C20_AmbiguousBaseGroupSkipped ==
  /\ (IsAzure /\ pc = "base") =>
       LET passed == SubSeq(cfg.BaseGroups, 1, idx - 1)
       IN /\ groups = Expanded(passed)
          /\ Asked("lookup") = passed
          /\ Asked("members") = SingleHits(passed)
          /\ FailedCalls = {}
  /\ (IsAzure /\ cfg.BaseGroups # <<>> /\ (pc = "map" \/ SyncSucceeded)) =>
       /\ Asked("lookup") = cfg.BaseGroups
       /\ Asked("members") = SingleHits(cfg.BaseGroups)
       /\ pc = "map" => groups = Expanded(cfg.BaseGroups)
  /\ (IsAzure /\ cfg.BaseGroups # <<>> /\ SyncReturned /\ ret.err # NoErr) =>
       \/ \E i \in FailedCalls : ret.err = <<CallError(calls[i])>>
       \/ FailedCalls = {} /\ ret.err = <<ErrParse>>

\* C20 happens: a Sync passed over its first base-group name, which no group
\* or two groups bear, and returned the group of a later name
C20_Witness ==
  /\ IsAzure /\ SyncSucceeded /\ Len(cfg.BaseGroups) >= 2
  /\ ~SingleHit(cfg.BaseGroups[1])
  /\ \E k \in 2..Len(cfg.BaseGroups) :
       SingleHit(cfg.BaseGroups[k]) /\ Emitted(HitOf(cfg.BaseGroups[k])) # {}

====
